---- MODULE Spec2Model ----
(***************************************************************************)
(* Model of brewery.flow.graph.Graph (src/brewery/flow/graph.py): the node *)
(* registry (an OrderedDict name -> node), the connection set, the         *)
(* auto-name counter and the topological sorter.                           *)
(*                                                                         *)
(* A call of a method is one step.  The step records the call, its         *)
(* arguments, its outcome (the value returned or the exception raised,     *)
(* with the source line that raises it) and the graph as it was before the *)
(* call in the variable `last`, so that pre/post conditions of a call are  *)
(* predicates of the state after it.                                       *)
(***************************************************************************)
EXTENDS Integers, Sequences, FiniteSets, TLC

(***************************************************************************)
(* Bounds of the model and the input universes.                            *)
(***************************************************************************)
MaxSeq == 4        \* calls that would push _name_sequence above are not taken
MaxConns == 2      \* calls that would grow the connection set above are not taken
FewSeq == 2        \* the cap of _name_sequence in the specification Spec

None == "None"                       \* Python's None
NodeIds == {"n1", "n2", "n3"}         \* node handles the caller owns
NameArgs == {None, "", "a", "node2"} \* name arguments of add
RenameArgs == {"", "a", "b"}         \* name arguments of rename_node
NameRefs == {"a", "node1", "node2"}  \* names used as node references
OutletPairs == {<<None, None>>, <<"o1", "i1">>}

VARIABLES
    nodes,           \* self.nodes: sequence of [name, node], insertion order
    connections,     \* self.connections: set of Connection records
    name_sequence,   \* self._name_sequence
    last,            \* the last call: [op, args, result, pre]
    pc,              \* "idle", or where a running sorted_nodes call stands
    l_nodes,         \* sorted_nodes: its local `nodes`
    l_connections,   \* sorted_nodes: its local `connections` (the working copy)
    sorted_nodes,    \* sorted_nodes: its local `sorted_nodes`
    source_nodes,    \* sorted_nodes: its local `source_nodes`
    s_connections    \* sorted_nodes: what the for loop has still to visit

locals == <<pc, l_nodes, l_connections, sorted_nodes, source_nodes, s_connections>>
vars == <<nodes, connections, name_sequence, last, locals>>

(***************************************************************************)
(* Outcomes of a call.                                                     *)
(***************************************************************************)
Return(v) == [status |-> "return", exc |-> None, line |-> 0, value |-> v]
RaiseWith(e, l, v) == [status |-> "raise", exc |-> e, line |-> l, value |-> v]
Raise(e, l) == RaiseWith(e, l, None)
Running == [status |-> "running", exc |-> None, line |-> 0, value |-> None]
Nothing == [status |-> "none", exc |-> None, line |-> 0, value |-> None]

Graph(n, c, s) == [nodes |-> n, connections |-> c, name_sequence |-> s]
Current == Graph(nodes, connections, name_sequence)

Call(op, args, result) ==
    [op |-> op, args |-> args, result |-> result, pre |-> Current]

(***************************************************************************)
(* The OrderedDict self.nodes.                                             *)
(***************************************************************************)
Keys(reg) == {reg[i].name : i \in DOMAIN reg}
Values(reg) == {reg[i].node : i \in DOMAIN reg}
Item(reg, name) == reg[CHOOSE i \in DOMAIN reg : reg[i].name = name].node
DelItem(reg, name) == SelectSeq(reg, LAMBDA e : e.name # name)
SetItem(reg, name, node) ==
    IF name \in Keys(reg)
    THEN [i \in DOMAIN reg |->
             IF reg[i].name = name THEN [name |-> name, node |-> node] ELSE reg[i]]
    ELSE Append(reg, [name |-> name, node |-> node])

Connection_pair_only(s, t, so, to) ==
    [source |-> s, target |-> t, source_outlet |-> None, target_outlet |-> None]

Connection(s, t, so, to) ==
    [source |-> s, target |-> t, source_outlet |-> so, target_outlet |-> to]

Truthy(v) == v # None /\ v # ""
IsString(v) == v \notin NodeIds

(***************************************************************************)
(* Graph.__init__ with no nodes and no connections.                        *)
(***************************************************************************)
Idle ==
    /\ pc = "idle"
    /\ l_nodes = {}
    /\ l_connections = {}
    /\ sorted_nodes = <<>>
    /\ source_nodes = {}
    /\ s_connections = {}

Init ==
    /\ nodes = <<>>
    /\ connections = {}
    /\ name_sequence = 1
    /\ last = [op |-> "__init__", args |-> <<>>, result |-> Return(None),
               pre |-> Graph(<<>>, {}, 1)]
    /\ Idle

(***************************************************************************)
(* Graph._generate_node_name: the value of _name_sequence when the loop    *)
(* breaks; the name returned is "node" + str of it.                        *)
(***************************************************************************)
NodeNameStr(n) == "node" \o ToString(n)

GenerateSeq_no_skip(reg, seq) == seq

GenerateSeq_from_one(reg, seq) ==
    CHOOSE n \in 1..(Len(reg) + 1) :
        /\ NodeNameStr(n) \notin Keys(reg)
        /\ \A k \in 1..(n - 1) : NodeNameStr(k) \in Keys(reg)

RECURSIVE GenerateSeq(_, _)
GenerateSeq(reg, seq) ==
    IF NodeNameStr(seq) \notin Keys(reg) THEN seq ELSE GenerateSeq(reg, seq + 1)

(***************************************************************************)
(* Graph.add                                                               *)
(***************************************************************************)
AddSeq(reg, seq, name) == IF Truthy(name) THEN seq ELSE GenerateSeq(reg, seq)
AddName(reg, seq, name) ==
    IF Truthy(name) THEN name ELSE NodeNameStr(GenerateSeq(reg, seq))

AddResult_instance_first(reg, seq, node, name) ==
    IF node \in Values(reg) THEN Raise("ValueError", 62)
    ELSE IF AddName(reg, seq, name) \in Keys(reg) THEN Raise("KeyError", 59)
    ELSE Return(AddName(reg, seq, name))

AddResult_no_instance_check(reg, seq, node, name) ==
    IF AddName(reg, seq, name) \in Keys(reg) THEN Raise("KeyError", 59)
    ELSE Return(AddName(reg, seq, name))

AddResult(reg, seq, node, name) ==
    IF AddName(reg, seq, name) \in Keys(reg) THEN Raise("KeyError", 59)
    ELSE IF node \in Values(reg) THEN Raise("ValueError", 62)
    ELSE Return(AddName(reg, seq, name))

Add(node, name) ==
    LET res == AddResult(nodes, name_sequence, node, name) IN
    /\ pc = "idle"
    /\ UNCHANGED locals
    /\ AddSeq(nodes, name_sequence, name) <= MaxSeq
    /\ name_sequence' = AddSeq(nodes, name_sequence, name)
    /\ nodes' = IF res.status = "return"
                THEN SetItem(nodes, res.value, node) ELSE nodes
    /\ UNCHANGED connections
    /\ last' = Call("add", [node |-> node, name |-> name], res)

(***************************************************************************)
(* Graph.node_name                                                         *)
(***************************************************************************)
NamesOf(reg, node) == {i \in DOMAIN reg : reg[i].node = node}

NodeNameResult_first(reg, node) ==
    IF reg # <<>> THEN Return(reg[1].name) ELSE Raise("NameError", 81)

NodeNameResult(reg, node) ==
    LET names == NamesOf(reg, node) IN
    IF ~Truthy(node) THEN Raise("ValueError", 72)
    ELSE IF Cardinality(names) = 1 THEN Return(reg[CHOOSE i \in names : TRUE].name)
    ELSE IF Cardinality(names) > 1 THEN Raise("NameError", 79)
    ELSE Raise("NameError", 81)

NodeName(node) ==
    /\ pc = "idle"
    /\ last' = Call("node_name", [node |-> node], NodeNameResult(nodes, node))
    /\ UNCHANGED <<nodes, connections, name_sequence, locals>>

(***************************************************************************)
(* Graph.rename_node.  Line 90 calls self.nodes, an OrderedDict, which is  *)
(* not callable: the call raises TypeError before anything is compared.    *)
(***************************************************************************)
OrderedDictCallable == FALSE

RenameResult(reg, node, name) ==
    IF ~Truthy(name) THEN Raise("ValueError", 89)
    ELSE IF ~OrderedDictCallable THEN Raise("TypeError", 90)
    ELSE IF name \in Keys(reg) THEN Raise("ValueError", 91)
    ELSE IF NodeNameResult(reg, node).status = "raise" THEN NodeNameResult(reg, node)
    ELSE Return(None)

RenameNode(node, name) ==
    LET res == RenameResult(nodes, node, name) IN
    /\ pc = "idle"
    /\ UNCHANGED locals
    /\ nodes' = IF res.status = "return"
                THEN SetItem(DelItem(nodes, NodeNameResult(nodes, node).value),
                             name, node)
                ELSE nodes
    /\ UNCHANGED <<connections, name_sequence>>
    /\ last' = Call("rename_node", [node |-> node, name |-> name], res)

(***************************************************************************)
(* Graph.node                                                              *)
(***************************************************************************)
NodeResult_no_lookup(reg, reference) ==
    IF reference \in Keys(reg) \/ reference \in Values(reg) THEN Return(reference)
    ELSE Raise("ValueError", 108)

NodeResult_unchecked(reg, reference) ==
    IF reference \in Keys(reg) THEN Return(Item(reg, reference))
    ELSE Return(reference)

NodeResult(reg, reference) ==
    IF reference \in Keys(reg) THEN Return(Item(reg, reference))
    ELSE IF reference \in Values(reg) THEN Return(reference)
    ELSE Raise("ValueError", 108)

Node(reference) ==
    /\ pc = "idle"
    /\ last' = Call("node", [reference |-> reference],
                    NodeResult(nodes, reference))
    /\ UNCHANGED <<nodes, connections, name_sequence, locals>>

(***************************************************************************)
(* Graph.remove                                                            *)
(***************************************************************************)
RemoveName(reg, node) ==
    IF IsString(node)
    THEN (IF node \in Keys(reg) THEN Return(node) ELSE Raise("KeyError", 117))
    ELSE NodeNameResult(reg, node)

Touching_source_only(conns, node) == {c \in conns : c.source = node}

Touching(conns, node) == {c \in conns : c.source = node \/ c.target = node}

Remove(node) ==
    LET name == RemoveName(nodes, node) IN
    /\ pc = "idle"
    /\ UNCHANGED locals
    /\ IF name.status = "return"
       THEN /\ nodes' = DelItem(nodes, name.value)
            /\ connections' =
                   connections \ Touching(connections, Item(nodes, name.value))
            /\ last' = Call("remove", [node |-> node], Return(None))
       ELSE /\ UNCHANGED <<nodes, connections>>
            /\ last' = Call("remove", [node |-> node], name)
    /\ UNCHANGED name_sequence

(***************************************************************************)
(* Graph.connect                                                           *)
(***************************************************************************)
ConnectResult_source_only(reg, source, target) ==
    IF NodeResult(reg, source).status = "raise" THEN NodeResult(reg, source)
    ELSE Return(None)

ConnectResult(reg, source, target) ==
    IF NodeResult(reg, source).status = "raise" THEN NodeResult(reg, source)
    ELSE IF NodeResult(reg, target).status = "raise" THEN NodeResult(reg, target)
    ELSE Return(None)

Connect(source, target, source_outlet, target_outlet) ==
    LET res == ConnectResult(nodes, source, target)
        added == IF res.status = "return"
                 THEN {Connection(NodeResult(nodes, source).value,
                                  NodeResult(nodes, target).value,
                                  source_outlet, target_outlet)}
                 ELSE {}
    IN
    /\ pc = "idle"
    /\ UNCHANGED locals
    /\ Cardinality(connections \cup added) <= MaxConns
    /\ connections' = connections \cup added
    /\ UNCHANGED <<nodes, name_sequence>>
    /\ last' = Call("connect",
                    [source |-> source, target |-> target,
                     source_outlet |-> source_outlet,
                     target_outlet |-> target_outlet], res)

(***************************************************************************)
(* Graph.remove_connection.  With all_ the loop of lines 144-146 discards  *)
(* from the set it iterates: after the first discard the iterator's next   *)
(* step raises RuntimeError ("Set changed size during iteration"), so the  *)
(* first matching connection the iteration meets is removed and the call   *)
(* fails.  Which one it meets first is the set's iteration order.          *)
(* The loop compares with the arguments as given, not with resolved nodes. *)
(***************************************************************************)
Matching(conns, source, target) ==
    {c \in conns : c.source = source /\ c.target = target}

\* set.discard
Discard_pair(conns, conn) ==
    {c \in conns : ~(c.source = conn.source /\ c.target = conn.target)}

Discard(conns, conn) == conns \ {conn}

RemoveConnection(source, target, source_outlet, target_outlet, all_) ==
    LET args == [source |-> source, target |-> target,
                 source_outlet |-> source_outlet,
                 target_outlet |-> target_outlet, all_ |-> all_]
        res == ConnectResult(nodes, source, target)
    IN
    /\ pc = "idle"
    /\ UNCHANGED locals
    /\ IF all_
       THEN IF Matching(connections, source, target) = {}
            THEN /\ UNCHANGED connections
                 /\ last' = Call("remove_connection", args, Return(None))
            ELSE \E conn \in Matching(connections, source, target) :
                     /\ connections' = Discard(connections, conn)
                     /\ last' = Call("remove_connection", args,
                                     Raise("RuntimeError", 144))
       ELSE IF res.status = "return"
            THEN /\ connections' =
                        Discard(connections,
                                Connection(NodeResult(nodes, source).value,
                                           NodeResult(nodes, target).value,
                                           source_outlet, target_outlet))
                 /\ last' = Call("remove_connection", args, Return(None))
            ELSE /\ UNCHANGED connections
                 /\ last' = Call("remove_connection", args, res)
    /\ UNCHANGED <<nodes, name_sequence>>

(***************************************************************************)
(* Graph.sorted_nodes.  The call is a sequence of steps: the set-up of     *)
(* lines 189-196, one step per pass of the while loop (the pop and the     *)
(* append), one step per pass of the for loop, and the end of lines        *)
(* 221-224.  set.pop() and the iteration of a set take the elements in an  *)
(* order the program does not fix: any element may come first.             *)
(***************************************************************************)
is_source_by_source(node, conns) ==
    \A connection \in conns : node # connection.source

is_source_always(node, conns) == TRUE

is_source(node, conns) == \A connection \in conns : node # connection.target

source_connections(node, conns) ==
    {connection \in conns : node = connection.source}

NoArg == <<>>                        \* the argument left out (nodes=None)
SortArgs == {NoArg} \cup {<<S>> : S \in SUBSET NodeIds}

\* what the call before this one returned, when it was the same call on
\* the same graph
Earlier(arg) ==
    IF last.op = "sorted_nodes"
    THEN (IF last.args.nodes = arg /\ last.pre = Current
          THEN last.result ELSE Nothing)
    ELSE Nothing

SortedNodes(arg) ==
    /\ pc = "idle"
    /\ l_nodes' = IF arg = NoArg \/ arg = <<{}>> THEN Values(nodes) ELSE arg[1]
    /\ l_connections' = connections
    /\ sorted_nodes' = <<>>
    /\ source_nodes' = {n \in l_nodes' : is_source(n, connections)}
    /\ s_connections' = {}
    /\ pc' = "while"
    /\ last' = [op |-> "sorted_nodes", args |-> [nodes |-> arg],
                result |-> Running, pre |-> Current, earlier |-> Earlier(arg)]
    /\ UNCHANGED <<nodes, connections, name_sequence>>

SortPop ==
    /\ pc = "while"
    /\ source_nodes # {}
    /\ \E node \in source_nodes :
           /\ source_nodes' = source_nodes \ {node}
           /\ sorted_nodes' = Append(sorted_nodes, node)
           /\ s_connections' = source_connections(node, l_connections)
           /\ pc' = IF s_connections' = {} THEN "while" ELSE "for"
    /\ UNCHANGED <<nodes, connections, name_sequence, last, l_nodes, l_connections>>

SortFor_no_copy ==
    /\ pc = "for"
    /\ \E connection \in s_connections :
           LET m == connection.target IN
           /\ l_connections' = l_connections \ {connection}
           /\ connections' = l_connections'
           /\ source_nodes' = IF is_source(m, l_connections')
                               THEN source_nodes \cup {m} ELSE source_nodes
           /\ s_connections' = s_connections \ {connection}
           /\ pc' = IF s_connections' = {} THEN "while" ELSE "for"
    /\ UNCHANGED <<nodes, name_sequence, last, l_nodes, sorted_nodes>>

SortFor ==
    /\ pc = "for"
    /\ \E connection \in s_connections :
           LET m == connection.target IN
           /\ l_connections' = l_connections \ {connection}
           /\ source_nodes' = IF is_source(m, l_connections')
                               THEN source_nodes \cup {m} ELSE source_nodes
           /\ s_connections' = s_connections \ {connection}
           /\ pc' = IF s_connections' = {} THEN "while" ELSE "for"
    /\ UNCHANGED <<nodes, connections, name_sequence, last, l_nodes, sorted_nodes>>

SortEnd_total_count ==
    /\ pc = "while"
    /\ source_nodes = {}
    /\ last' = [last EXCEPT !.result =
                   IF l_connections # {}
                   THEN RaiseWith("Exception", 222,
                                  [left |-> Cardinality(connections),
                                   of |-> Cardinality(l_connections)])
                   ELSE Return(sorted_nodes)]
    /\ pc' = "idle"
    /\ l_nodes' = {}
    /\ l_connections' = {}
    /\ sorted_nodes' = <<>>
    /\ source_nodes' = {}
    /\ s_connections' = {}
    /\ UNCHANGED <<nodes, connections, name_sequence>>

SortEnd ==
    /\ pc = "while"
    /\ source_nodes = {}
    /\ last' = [last EXCEPT !.result =
                   IF l_connections # {}
                   THEN RaiseWith("Exception", 222,
                                  [left |-> Cardinality(l_connections),
                                   of |-> Cardinality(connections)])
                   ELSE Return(sorted_nodes)]
    /\ pc' = "idle"
    /\ l_nodes' = {}
    /\ l_connections' = {}
    /\ sorted_nodes' = <<>>
    /\ source_nodes' = {}
    /\ s_connections' = {}
    /\ UNCHANGED <<nodes, connections, name_sequence>>

(***************************************************************************)
(* Graph.node_targets and Graph.node_sources.  The list comprehension      *)
(* iterates the connection set, so the list has one element per matching   *)
(* connection, in the set's iteration order, which the program does not    *)
(* fix.                                                                    *)
(***************************************************************************)
Orderings(S) ==
    {f \in [1..Cardinality(S) -> S] :
        \A i \in DOMAIN f, j \in DOMAIN f : i # j => f[i] # f[j]}

WithSource(conns, node) == {conn \in conns : conn.source = node}

WithTarget_by_source(conns, node) == {conn \in conns : conn.source = node}

WithTarget(conns, node) == {conn \in conns : conn.target = node}

NodeTargetsResults(reg, conns, node) ==
    IF NodeResult(reg, node).status = "raise" THEN {NodeResult(reg, node)}
    ELSE {Return([i \in DOMAIN o |-> o[i].target]) :
             o \in Orderings(WithSource(conns, NodeResult(reg, node).value))}

NodeSourcesResults(reg, conns, node) ==
    IF NodeResult(reg, node).status = "raise" THEN {NodeResult(reg, node)}
    ELSE {Return([i \in DOMAIN o |-> o[i].source]) :
             o \in Orderings(WithTarget(conns, NodeResult(reg, node).value))}

NodeTargets(node) ==
    /\ pc = "idle"
    /\ \E res \in NodeTargetsResults(nodes, connections, node) :
           last' = Call("node_targets", [node |-> node], res)
    /\ UNCHANGED <<nodes, connections, name_sequence, locals>>

NodeSources(node) ==
    /\ pc = "idle"
    /\ \E res \in NodeSourcesResults(nodes, connections, node) :
           last' = Call("node_sources", [node |-> node], res)
    /\ UNCHANGED <<nodes, connections, name_sequence, locals>>

(***************************************************************************)
(* The registry under any sequence of add, rename_node and remove calls.   *)
(***************************************************************************)
NextReg ==
    \/ \E node \in NodeIds, name \in NameArgs : Add(node, name)
    \/ \E node \in NodeIds, name \in RenameArgs : RenameNode(node, name)
    \/ \E node \in NodeIds \cup NameRefs : Remove(node)

SpecReg == Init /\ [][NextReg]_vars

(***************************************************************************)
(* The connection set of a graph built by add(n1, "a"), add(n2), add(n3),  *)
(* under any sequence of connect, remove_connection and remove calls.      *)
(***************************************************************************)
InitConn ==
    /\ nodes = <<[name |-> "a", node |-> "n1"], [name |-> "node1", node |-> "n2"],
                 [name |-> "node2", node |-> "n3"]>>
    /\ connections = {}
    /\ name_sequence = 2
    /\ last = [op |-> "add", args |-> [node |-> "n3", name |-> None],
               result |-> Return("node2"),
               pre |-> Graph(SubSeq(nodes, 1, 2), {}, 1)]
    /\ Idle

ConnRefs == NodeIds \cup {"a"}

NextConn ==
    \/ \E node \in ConnRefs : Remove(node)
    \/ \E source \in ConnRefs, target \in ConnRefs, o \in OutletPairs :
           Connect(source, target, o[1], o[2])
    \/ \E source \in ConnRefs, target \in ConnRefs, o \in OutletPairs :
           RemoveConnection(source, target, o[1], o[2], FALSE)
    \/ \E source \in ConnRefs, target \in ConnRefs :
           RemoveConnection(source, target, None, None, TRUE)

SpecConn == InitConn /\ [][NextConn]_vars

(***************************************************************************)
(* The graph under any sequence of calls of the five mutating methods,     *)
(* with two of the handles.                                                *)
(***************************************************************************)
FewNodeIds == {"n1", "n2"}
FewRefs == FewNodeIds \cup {"a"}

Next ==
    \/ \E node \in FewNodeIds, name \in {None, "a"} :
           Add(node, name) /\ name_sequence' <= FewSeq
    \/ \E node \in FewNodeIds, name \in {"", "b"} : RenameNode(node, name)
    \/ \E node \in FewRefs : Remove(node)
    \/ \E source \in FewRefs, target \in FewRefs, o \in OutletPairs :
           Connect(source, target, o[1], o[2])
    \/ \E source \in FewRefs, target \in FewRefs, o \in OutletPairs :
           RemoveConnection(source, target, o[1], o[2], FALSE)
    \/ \E source \in FewRefs, target \in FewRefs :
           RemoveConnection(source, target, None, None, TRUE)

Spec == Init /\ [][Next]_vars

(***************************************************************************)
(* sorted_nodes on the graphs of three registered nodes and at most        *)
(* MaxSortConns connections, each of which connect calls can build.        *)
(***************************************************************************)
MaxSortConns == 3

AllConnections ==
    {Connection(s, t, o[1], o[2]) : s \in NodeIds, t \in NodeIds, o \in OutletPairs}

InitSort ==
    /\ nodes = <<[name |-> "a", node |-> "n1"], [name |-> "node1", node |-> "n2"],
                 [name |-> "node2", node |-> "n3"]>>
    /\ connections \in {c \in SUBSET AllConnections : Cardinality(c) <= MaxSortConns}
    /\ name_sequence = 2
    /\ last = [op |-> "built", args |-> <<>>, result |-> Return(None),
               pre |-> Graph(nodes, connections, 2)]
    /\ Idle

NextSort ==
    \/ \E arg \in SortArgs : SortedNodes(arg)
    \/ SortPop
    \/ SortFor
    \/ SortEnd

SpecSort == InitSort /\ [][NextSort]_vars

(***************************************************************************)
(* The same with the call running to its end: sorted_nodes is one          *)
(* synchronous call, so a call that has started takes its next step, the   *)
(* next pass of the while loop or of the for loop or the end of lines      *)
(* 221-224, as long as it has one.                                         *)
(***************************************************************************)
SortStep == SortPop \/ SortFor \/ SortEnd

FairSort == SpecSort /\ WF_vars(SortStep)

(***************************************************************************)
(* connect calls with the nodes given as nodes, and sorted_nodes() calls,  *)
(* on the graph built by add(n1, "a"), add(n2), add(n3).                   *)
(***************************************************************************)
NextOutlets ==
    \/ \E source \in NodeIds, target \in NodeIds, o \in OutletPairs :
           Connect(source, target, o[1], o[2])
    \/ SortedNodes(NoArg)
    \/ SortPop
    \/ SortFor
    \/ SortEnd

SpecOutlets == InitConn /\ [][NextOutlets]_vars

(***************************************************************************)
(* node_targets and node_sources on the graphs of InitSort.                *)
(***************************************************************************)
QueryRefs == NodeIds \cup {"a", "b"}

NextQuery ==
    \/ \E node \in QueryRefs : NodeTargets(node)
    \/ \E node \in QueryRefs : NodeSources(node)

SpecQuery == InitSort /\ [][NextQuery]_vars

(***************************************************************************)
(* node and node_name calls on the registry under any sequence of add,     *)
(* rename_node and remove calls.                                           *)
(***************************************************************************)
ResolveRefs == NodeIds \cup NameRefs \cup {"b"}

NextResolve ==
    \/ \E node \in NodeIds, name \in {None, "a", "node2"} : Add(node, name)
    \/ \E node \in NodeIds, name \in RenameArgs : RenameNode(node, name)
    \/ \E node \in NodeIds : Remove(node)
    \/ \E reference \in ResolveRefs : Node(reference)
    \/ \E node \in NodeIds \cup {None} : NodeName(node)

SpecResolve == Init /\ [][NextResolve]_vars

(***************************************************************************)
(* Properties.                                                             *)
(***************************************************************************)
Succ(S, conns) == {c.target : c \in {d \in conns : d.source \in S}}

RECURSIVE Closure(_, _)
Closure(S, conns) ==
    LET T == S \cup Succ(S, conns) IN IF T = S THEN S ELSE Closure(T, conns)

HasCycle(conns) == \E c \in conns : c.source \in Closure({c.target}, conns)

\* the nodes on a directed cycle and the nodes reachable from one
Stuck(conns) ==
    UNION {Closure({c.target}, conns) :
              c \in {d \in conns : d.source \in Closure({d.target}, conns)}}

Returned == last.result.status = "return"
Raised == last.result.status = "raise"

SortedAll ==
    pc = "idle" /\ last.op = "sorted_nodes" /\ last.args.nodes = NoArg

Index(seq, x) == CHOOSE i \in DOMAIN seq : seq[i] = x

\* the node a reference stands for in a registry that resolves it
Resolves(reg, ref) == ref \in Keys(reg) \/ ref \in Values(reg)
Resolved(reg, ref) ==
    IF ref \in NodeIds THEN ref
    ELSE (CHOOSE e \in {reg[i] : i \in DOMAIN reg} : e.name = ref).node

\* C1: on an acyclic graph sorted_nodes() without a subset returns every
\* registered node exactly once, the source of every connection before its
\* target, whatever the frontier pop chooses
C1_TopologicalOrder ==
    (SortedAll /\ ~HasCycle(connections)) =>
        /\ Returned
        /\ Len(last.result.value) = Len(nodes)
        /\ \A n \in Values(nodes) :
               Cardinality({i \in DOMAIN last.result.value :
                               last.result.value[i] = n}) = 1
        /\ \A c \in connections :
               Index(last.result.value, c.source) < Index(last.result.value, c.target)

\* C1 witness: a sort has returned on a graph where two connections with
\* different outlets join one pair and a third connection leaves the target
C1_Witness ==
    /\ SortedAll
    /\ Returned
    /\ \E c1 \in connections, c2 \in connections, c3 \in connections :
           /\ c1 # c2
           /\ c1.source = c2.source
           /\ c1.target = c2.target
           /\ c3.source = c1.target

\* C2: sorted_nodes() without a subset raises the cycle error exactly when
\* the connections contain a directed cycle; it then returns no order and
\* reports the number of connections it could not consume, which are the
\* connections leaving a node on a cycle or reachable from one
C2_CycleDetected ==
    SortedAll =>
        /\ Raised <=> HasCycle(connections)
        /\ Raised =>
               /\ last.result.exc = "Exception"
               /\ last.result.line = 222
               /\ last.result.value.left =
                      Cardinality({c \in connections : c.source \in Stuck(connections)})
        /\ (\E A \in NodeIds, B \in NodeIds :
                /\ A # B
                /\ connections = {Connection(A, B, None, None),
                                  Connection(B, A, None, None)})
               => (Raised /\ last.result.value.left = 2)

\* C2 witness: the sort of A->B, B->A has failed reporting 2 connections
C2_Witness ==
    /\ SortedAll
    /\ Raised
    /\ connections = {Connection("n1", "n2", None, None),
                      Connection("n2", "n1", None, None)}
    /\ last.result.value.left = 2

\* C3: the registry never holds two entries with one name nor two entries
\* with one node, and node_name never takes its "more references" branch
C3_UniqueNamesAndNodes ==
    /\ \A i \in DOMAIN nodes, j \in DOMAIN nodes :
           i # j => (nodes[i].name # nodes[j].name /\ nodes[i].node # nodes[j].node)
    /\ \A node \in NodeIds : NodeNameResult(nodes, node).line # 79
    /\ last.result.line # 79

\* C3 witness: with three nodes registered, an add of a registered node
\* has been refused
C3_Witness ==
    /\ Len(nodes) = 3
    /\ last.op = "add"
    /\ last.result = Raise("ValueError", 62)

\* C4: the source and the target of every connection are registered nodes
C4_NoDanglingConnection ==
    \A c \in connections :
        c.source \in Values(nodes) /\ c.target \in Values(nodes)

\* C4 witness: a remove has taken connections with it and a connection
\* between registered nodes is left
C4_Witness ==
    /\ last.op = "remove"
    /\ Returned
    /\ connections # {}
    /\ connections # last.pre.connections

\* C5: remove(B), B a registered node or its name, returns, deletes B's
\* entry and every connection with B as source or target, and changes
\* nothing else
C5_RemoveCascades ==
    (last.op = "remove" /\ Resolves(last.pre.nodes, last.args.node)) =>
        LET B == Resolved(last.pre.nodes, last.args.node) IN
        /\ Returned
        /\ nodes = SelectSeq(last.pre.nodes, LAMBDA e : e.node # B)
        /\ Len(nodes) = Len(last.pre.nodes) - 1
        /\ connections =
               {c \in last.pre.connections : c.source # B /\ c.target # B}
        /\ name_sequence = last.pre.name_sequence

\* C5 witness: B was removed when A->B and B->C existed; A and C are still
\* registered and nothing joins them
C5_Witness ==
    /\ last.op = "remove"
    /\ Returned
    /\ \E A \in Values(nodes), C \in Values(nodes), o1 \in OutletPairs,
          o2 \in OutletPairs :
           LET B == Resolved(last.pre.nodes, last.args.node) IN
           /\ A # C
           /\ last.pre.connections =
                  {Connection(A, B, o1[1], o1[2]), Connection(B, C, o2[1], o2[2])}
    /\ connections = {}

Unnamed == last.op = "add" /\ ~(last.args.name # None /\ last.args.name # "")
Named == last.op = "add" /\ last.args.name # None /\ last.args.name # ""

Entries(reg) == {reg[i] : i \in DOMAIN reg}
RegNames(reg) == {e.name : e \in Entries(reg)}
RegNodes(reg) == {e.node : e \in Entries(reg)}

AddedLast ==
    /\ Returned
    /\ Len(nodes) = Len(last.pre.nodes) + 1
    /\ SubSeq(nodes, 1, Len(last.pre.nodes)) = last.pre.nodes
    /\ nodes[Len(nodes)] = [name |-> last.result.value, node |-> last.args.node]
    /\ last.result.value \notin RegNames(last.pre.nodes)
    /\ Named => last.result.value = last.args.name

\* C6 as stated: add fails with the duplicate-name error whenever the name
\* is a key, and with the duplicate-instance error whenever the node is a
\* value; in every other case it appends the entry and returns its name
C6_AsStated ==
    last.op = "add" =>
        /\ (Named /\ last.args.name \in RegNames(last.pre.nodes))
               => last.result = Raise("KeyError", 59)
        /\ (last.args.node \in RegNodes(last.pre.nodes))
               => last.result = Raise("ValueError", 62)
        /\ (~(Named /\ last.args.name \in RegNames(last.pre.nodes))
              /\ last.args.node \notin RegNodes(last.pre.nodes))
               => AddedLast

\* C6 amended: add fails with the duplicate-name error whenever the name is
\* a key; otherwise it fails with the duplicate-instance error whenever the
\* node is a value; in every other case it appends the entry last and
\* returns its name.  The registry is as before after either failure.
C6_AddOutcome ==
    last.op = "add" =>
        /\ (Named /\ last.args.name \in RegNames(last.pre.nodes))
               => (last.result = Raise("KeyError", 59) /\ nodes = last.pre.nodes)
        /\ (~(Named /\ last.args.name \in RegNames(last.pre.nodes))
              /\ last.args.node \in RegNodes(last.pre.nodes))
               => (last.result = Raise("ValueError", 62) /\ nodes = last.pre.nodes)
        /\ (~(Named /\ last.args.name \in RegNames(last.pre.nodes))
              /\ last.args.node \notin RegNodes(last.pre.nodes))
               => AddedLast

\* C6 witness: an add of a registered node under a registered name has
\* failed with the duplicate-name error
C6_Witness ==
    /\ Named
    /\ last.args.name \in RegNames(last.pre.nodes)
    /\ last.args.node \in RegNodes(last.pre.nodes)
    /\ last.result = Raise("KeyError", 59)

\* C7: a call that raises leaves the registry, the connection set and the
\* counter as they were before the call
C7_FailureChangesNothing ==
    Raised => Current = last.pre

\* C8: an unnamed add of a node that is not registered returns node<N>, N
\* the smallest number not below the counter whose name is unused; on a
\* fresh graph the first three unnamed adds return node1, node2, node3
C8_GeneratedName ==
    (Unnamed /\ last.args.node \notin RegNodes(last.pre.nodes)) =>
        /\ AddedLast
        /\ \E N \in last.pre.name_sequence..MaxSeq :
               /\ last.result.value = NodeNameStr(N)
               /\ \A k \in last.pre.name_sequence..(N - 1) :
                      NodeNameStr(k) \in RegNames(last.pre.nodes)
        /\ \A k \in 0..2 :
               (/\ Len(last.pre.nodes) = k
                /\ \A i \in 1..k : last.pre.nodes[i].name = NodeNameStr(i)
                /\ last.pre.name_sequence = (IF k = 0 THEN 1 ELSE k))
               => last.result.value = NodeNameStr(k + 1)

\* C8 witness: the third unnamed add has returned node3 after node1, node2
C8_Witness ==
    /\ Unnamed
    /\ Returned
    /\ Len(nodes) = 3
    /\ \A i \in 1..3 : nodes[i].name = NodeNameStr(i)
    /\ last.pre.name_sequence = 2
    /\ last.result.value = "node3"

\* C9: the counter never decreases, and an unnamed add never returns
\* node<N> with N below the counter's value before the call
C9_CounterMonotonic ==
    /\ name_sequence >= last.pre.name_sequence
    /\ (Unnamed /\ Returned) =>
           \A k \in 1..(last.pre.name_sequence - 1) :
               last.result.value # NodeNameStr(k)

\* C9 witness: with node1 and node3 registered, node2 removed and the
\* counter at 3, an unnamed add has returned node4
C9_Witness ==
    /\ Unnamed
    /\ RegNames(last.pre.nodes) = {"node1", "node3"}
    /\ last.pre.name_sequence = 3
    /\ last.result = Return("node4")

\* C10: a connect whose resolved 4-tuple is already in the connection set
\* returns and leaves the connection set as it was
C10_ConnectIdempotent ==
    (/\ last.op = "connect"
     /\ Resolves(last.pre.nodes, last.args.source)
     /\ Resolves(last.pre.nodes, last.args.target)
     /\ Connection(Resolved(last.pre.nodes, last.args.source),
                   Resolved(last.pre.nodes, last.args.target),
                   last.args.source_outlet, last.args.target_outlet)
            \in last.pre.connections)
    => (Returned /\ connections = last.pre.connections)

\* C10 witness: connect("a", B) has returned on a graph whose only
\* connection is the one from the node named "a" to B
C10_Witness ==
    /\ last.op = "connect"
    /\ Returned
    /\ last.args.source = "a"
    /\ last.args.target \in NodeIds
    /\ last.pre.connections =
           {Connection(Resolved(last.pre.nodes, "a"), last.args.target,
                       last.args.source_outlet, last.args.target_outlet)}
    /\ connections = last.pre.connections

\* C11: a connect of a 4-tuple that is not yet in the set adds it next to
\* the connections of the same pair with other outlets, and while
\* sorted_nodes runs no node of the frontier is the target of a connection
\* that is still in the working copy
C11_FourTuple ==
    /\ (last.op = "connect" /\ Returned) =>
           LET new == [source |-> last.args.source, target |-> last.args.target,
                       source_outlet |-> last.args.source_outlet,
                       target_outlet |-> last.args.target_outlet]
           IN /\ connections = last.pre.connections \cup {new}
              /\ new \notin last.pre.connections =>
                     Cardinality(connections) = Cardinality(last.pre.connections) + 1
    /\ pc # "idle" =>
           \A c \in l_connections : c.target \notin source_nodes

\* C11 witness: with two connections from A to B under different outlets,
\* the sort has consumed one of them and B is not in the frontier
C11_Witness ==
    /\ pc = "for"
    /\ \E c1 \in connections, c2 \in connections :
           /\ c1 # c2
           /\ c1.source = c2.source
           /\ c1.target = c2.target
           /\ c1.source # c1.target
           /\ c1 \in l_connections
           /\ c2 \notin l_connections
           /\ c1.target \notin source_nodes
           /\ c1.source = sorted_nodes[Len(sorted_nodes)]

RemoveArgs ==
    last.op = "remove_connection" /\ Resolves(last.pre.nodes, last.args.source)
                                  /\ Resolves(last.pre.nodes, last.args.target)

\* C12: remove_connection(source, target, all_=True), the endpoints given
\* as registered nodes or as their names, returns and leaves no connection
\* from source to target and every other connection as it was
C12_RemoveAll ==
    (RemoveArgs /\ last.args.all_) =>
        LET S == Resolved(last.pre.nodes, last.args.source)
            T == Resolved(last.pre.nodes, last.args.target)
        IN /\ Returned
           /\ connections =
                  {c \in last.pre.connections : ~(c.source = S /\ c.target = T)}

\* C13 as stated: remove_connection with all_ false removes exactly the
\* connection equal to the 4-tuple, leaves the registry unchanged, and is a
\* silent no-op when there is no such connection
C13_AsStated ==
    (last.op = "remove_connection" /\ ~last.args.all_) =>
        /\ Returned
        /\ nodes = last.pre.nodes
        /\ name_sequence = last.pre.name_sequence
        /\ connections =
               {c \in last.pre.connections :
                   ~(/\ Resolves(last.pre.nodes, last.args.source)
                     /\ Resolves(last.pre.nodes, last.args.target)
                     /\ c.source = Resolved(last.pre.nodes, last.args.source)
                     /\ c.target = Resolved(last.pre.nodes, last.args.target)
                     /\ c.source_outlet = last.args.source_outlet
                     /\ c.target_outlet = last.args.target_outlet)}

\* C13 amended: with both endpoints resolvable, remove_connection with
\* all_ false returns, removes exactly the connection equal to the resolved
\* 4-tuple (nothing when there is none) and leaves the registry unchanged;
\* with an unresolvable endpoint it raises the not-found error of
\* Graph.node and changes nothing
C13_RemoveOne ==
    (last.op = "remove_connection" /\ ~last.args.all_) =>
        /\ nodes = last.pre.nodes
        /\ name_sequence = last.pre.name_sequence
        /\ IF RemoveArgs
           THEN /\ Returned
                /\ connections =
                       {c \in last.pre.connections :
                           ~(/\ c.source = Resolved(last.pre.nodes, last.args.source)
                             /\ c.target = Resolved(last.pre.nodes, last.args.target)
                             /\ c.source_outlet = last.args.source_outlet
                             /\ c.target_outlet = last.args.target_outlet)}
           ELSE /\ last.result = Raise("ValueError", 108)
                /\ connections = last.pre.connections

\* C13 witness: of two connections between one pair, the one named by the
\* call (its source given by name) is gone and the other is left
C13_Witness ==
    /\ last.op = "remove_connection"
    /\ ~last.args.all_
    /\ Returned
    /\ last.args.source = "a"
    /\ Cardinality(last.pre.connections) = 2
    /\ Cardinality(connections) = 1
    /\ \E c \in connections :
           /\ c.source = Resolved(last.pre.nodes, "a")
           /\ c.target = Resolved(last.pre.nodes, last.args.target)
           /\ c.source_outlet # last.args.source_outlet

\* C14: rename_node(node, newName), node registered, newName non-empty and
\* not a key, returns; the node's entry carries newName, the old name is
\* gone, the other entries and the connection set are as before
C14_RenameSucceeds ==
    (/\ last.op = "rename_node"
     /\ last.args.node \in RegNodes(last.pre.nodes)
     /\ last.args.name # ""
     /\ last.args.name \notin RegNames(last.pre.nodes))
    => /\ Returned
       /\ RegNames(nodes) =
              {e.name : e \in {x \in Entries(last.pre.nodes) : x.node # last.args.node}}
                  \cup {last.args.name}
       /\ \A e \in Entries(nodes) :
              IF e.node = last.args.node THEN e.name = last.args.name
              ELSE e \in Entries(last.pre.nodes)
       /\ Len(nodes) = Len(last.pre.nodes)
       /\ connections = last.pre.connections

\* C15: rename_node fails with the invalid-name error (line 89) when
\* newName is empty, with the duplicate-name error (line 91) when newName
\* is a key, with the not-found error (line 81) when node is not
\* registered; in each case the registry is as before
C15_RenameFailures ==
    last.op = "rename_node" =>
        /\ last.args.name = "" => last.result = Raise("ValueError", 89)
        /\ (last.args.name # "" /\ last.args.name \in RegNames(last.pre.nodes))
               => last.result = Raise("ValueError", 91)
        /\ (/\ last.args.name # ""
            /\ last.args.name \notin RegNames(last.pre.nodes)
            /\ last.args.node \notin RegNodes(last.pre.nodes))
               => (Raised /\ last.result.line = 81)
        /\ Raised => nodes = last.pre.nodes

\* C16: connect raises the not-found error of Graph.node and inserts
\* nothing when source or target is neither a registered name nor a
\* registered node; otherwise it returns and inserts the resolved 4-tuple
C16_ConnectNotFound ==
    last.op = "connect" =>
        IF Resolves(last.pre.nodes, last.args.source)
              /\ Resolves(last.pre.nodes, last.args.target)
        THEN /\ Returned
             /\ connections = last.pre.connections \cup
                    {[source |-> Resolved(last.pre.nodes, last.args.source),
                      target |-> Resolved(last.pre.nodes, last.args.target),
                      source_outlet |-> last.args.source_outlet,
                      target_outlet |-> last.args.target_outlet]}
        ELSE /\ last.result = Raise("ValueError", 108)
             /\ connections = last.pre.connections

\* C16 witness: a connect from a registered node to a node that was
\* removed earlier has failed on a graph that has a connection
C16_Witness ==
    /\ last.op = "connect"
    /\ Raised
    /\ last.args.source \in Values(nodes)
    /\ last.args.target \in NodeIds \ Values(nodes)
    /\ connections # {}

Count(seq, x) == Cardinality({i \in DOMAIN seq : seq[i] = x})

Between(conns, A, B) == {c \in conns : c.source = A /\ c.target = B}

\* C17: for registered nodes A and B, whatever lists node_targets(A) and
\* node_sources(B) return, B occurs in the first as often as A occurs in
\* the second, namely once per connection from A to B; the list a call
\* has returned (the node given as node or as name) has these counts
C17_TargetsSourcesConsistent ==
    /\ \A A \in Values(nodes), B \in Values(nodes) :
           \A t \in NodeTargetsResults(nodes, connections, A),
              s \in NodeSourcesResults(nodes, connections, B) :
               /\ t.status = "return"
               /\ s.status = "return"
               /\ Count(t.value, B) = Cardinality(Between(connections, A, B))
               /\ Count(s.value, A) = Cardinality(Between(connections, A, B))
               /\ (Count(t.value, B) > 0) <=> (Count(s.value, A) > 0)
    /\ (last.op = "node_targets" /\ Resolves(nodes, last.args.node)) =>
           /\ Returned
           /\ \A B \in NodeIds :
                  Count(last.result.value, B) =
                      Cardinality(Between(connections, Resolved(nodes, last.args.node), B))
    /\ (last.op = "node_sources" /\ Resolves(nodes, last.args.node)) =>
           /\ Returned
           /\ \A A \in NodeIds :
                  Count(last.result.value, A) =
                      Cardinality(Between(connections, A, Resolved(nodes, last.args.node)))

\* C17 witness: node_sources(B) has returned a list in which A occurs
\* twice, for two connections from A to B under different outlets
C17_Witness ==
    /\ last.op = "node_sources"
    /\ Returned
    /\ \E A \in NodeIds :
           /\ A # last.args.node
           /\ Count(last.result.value, A) = 2
           /\ Cardinality(Between(connections, A, last.args.node)) = 2

SortedSubset ==
    /\ pc = "idle"
    /\ last.op = "sorted_nodes"
    /\ last.args.nodes # NoArg
    /\ last.args.nodes # <<{}>>

\* C18: from its call to its end, returning or raising, with or without a
\* subset, sorted_nodes leaves the registry, the connection set and the
\* counter as they were when it was called
C18_SortChangesNothing ==
    last.op = "sorted_nodes" => Current = last.pre

\* C18 witness: a sort of a subset has raised the cycle error after it
\* consumed part of its working copy, on a graph that has its connections
C18_Witness ==
    /\ SortedSubset
    /\ Raised
    /\ last.result.value.left < Cardinality(connections)
    /\ last.result.value.left > 0

\* C19: two sorted_nodes calls with the same argument on the same
\* unmodified graph return the same sequence
C19_Deterministic ==
    (/\ pc = "idle"
     /\ last.op = "sorted_nodes"
     /\ Returned
     /\ last.earlier.status = "return")
    => last.result.value = last.earlier.value

\* C20: on an acyclic graph sorted_nodes(subset), subset a non-empty set of
\* registered nodes, returns the nodes of subset and no other, each once,
\* s before t for every connection (s, t) with both endpoints in subset
C20_SubsetOrder ==
    (SortedSubset /\ last.args.nodes[1] \subseteq Values(nodes)
                  /\ ~HasCycle(connections)) =>
        /\ Returned
        /\ Len(last.result.value) = Cardinality(last.args.nodes[1])
        /\ {last.result.value[i] : i \in DOMAIN last.result.value}
               = last.args.nodes[1]
        /\ \A c \in connections :
               (c.source \in last.args.nodes[1] /\ c.target \in last.args.nodes[1])
               => Index(last.result.value, c.source) < Index(last.result.value, c.target)

\* C21: node and node_name are inverse on the registry: in every reachable
\* state node_name(node(n)) = n for every registered name n, and
\* node(node_name(x)) = x and node(x) = x for every registered node x; a
\* node call returns accordingly, and a node call with a reference that is
\* neither a registered name nor a registered node raises the ValueError of
\* line 108
C21_NodeAndNameInverse ==
    /\ \A n \in Keys(nodes) :
           /\ NodeResult(nodes, n).status = "return"
           /\ NodeNameResult(nodes, NodeResult(nodes, n).value) = Return(n)
    /\ \A x \in Values(nodes) :
           /\ NodeNameResult(nodes, x).status = "return"
           /\ NodeResult(nodes, NodeNameResult(nodes, x).value) = Return(x)
           /\ NodeResult(nodes, x) = Return(x)
    /\ last.op = "node" =>
           /\ last.args.reference \in Keys(nodes) =>
                  /\ Returned
                  /\ NodeNameResult(nodes, last.result.value)
                         = Return(last.args.reference)
           /\ last.args.reference \in Values(nodes) =>
                  last.result = Return(last.args.reference)
           /\ ~Resolves(nodes, last.args.reference) =>
                  last.result = Raise("ValueError", 108)
    /\ (last.op = "node_name" /\ last.args.node \in Values(nodes)) =>
           /\ Returned
           /\ NodeResult(nodes, last.result.value) = Return(last.args.node)

\* C21 witness: node has resolved the generated name "node2" to the second
\* of three registered nodes, the third of which has a given name
C21_Witness ==
    /\ last.op = "node"
    /\ Returned
    /\ Len(nodes) = 3
    /\ last.args.reference = nodes[2].name
    /\ last.args.reference = "node2"
    /\ last.result.value = nodes[2].node
    /\ nodes[3].name = "a"

\* C21 witness of the failure: node has raised for a name that was removed
C21_NotFoundWitness ==
    /\ last.op = "node"
    /\ last.result = Raise("ValueError", 108)
    /\ last.args.reference = "a"
    /\ nodes # <<>>
    /\ name_sequence > 1

Popped == {sorted_nodes[i] : i \in DOMAIN sorted_nodes}

\* what bounds the steps a running call has left: the nodes not yet popped
\* and the connections still in the working copy
PoppedOnce ==
    /\ \A i \in DOMAIN sorted_nodes, j \in DOMAIN sorted_nodes :
           sorted_nodes[i] = sorted_nodes[j] => i = j
    /\ source_nodes \cap Popped = {}

RemovedOnce ==
    /\ s_connections \subseteq l_connections
    /\ l_connections \subseteq connections
    /\ \A c \in connections \ l_connections : c.source \in Popped
    /\ pc = "for" => s_connections # {}

SortEnded ==
    /\ pc = "idle"
    /\ last.op = "sorted_nodes"
    /\ \/ Returned
       \/ Raised /\ last.result.exc = "Exception" /\ last.result.line = 222

\* C22: sorted_nodes terminates on every graph, cyclic or not, with or
\* without a subset: while a call runs no node has been popped twice and no
\* popped node is in the frontier again, every connection the for loop has
\* still to remove is in the working copy, and every call that has started
\* ends, returning an order or raising the cycle error of line 222
C22_SortTerminates ==
    /\ [](pc # "idle" => PoppedOnce /\ RemovedOnce)
    /\ (pc # "idle") ~> SortEnded

\* C22 witness: a call with a subset on a graph with a cycle has ended with
\* the cycle error after it removed a connection from the working copy
C22_Witness ==
    /\ SortEnded
    /\ Raised
    /\ last.args.nodes # NoArg
    /\ last.args.nodes # <<{}>>
    /\ HasCycle(connections)
    /\ last.result.value.left < last.result.value.of

====
